---- MODULE Spec2Model ----
(***************************************************************************)
(* A state-machine model of example.py, the usage script of the stealthium *)
(* package.  The script is a straight-line program: each example function  *)
(* is a fixed sequence of calls (prints, the StealthChrome constructor,    *)
(* driver methods, quit()), some of them inside try/finally or a with      *)
(* statement, and the main block runs example calls inside one             *)
(* try/except Exception.                                                   *)
(*                                                                         *)
(* Every call the script makes goes into code that is not in the script    *)
(* (print, time.sleep, the stealthium and selenium libraries), so every    *)
(* call has three outcomes: it returns, it raises an exception derived     *)
(* from Exception, or it raises one that is not (KeyboardInterrupt,        *)
(* SystemExit).  Control flow on each outcome is Python's: try/finally,    *)
(* with, and except Exception.                                             *)
(***************************************************************************)
EXTENDS Naturals, Sequences, FiniteSets

VARIABLES
    calls,    \* the example calls of the main block's try, in order
    idx,      \* index in calls of the call being made (Len(calls)+1: all made)
    fn,       \* the example function being executed ("none" before the first)
    ip,       \* index in Prog(fn) of the next call to execute
    pc,       \* where control is: main, run, returned, raised, handler, traceback, exit, uncaught
    exc,      \* the exception in flight inside the example function
    sess,     \* what the current example function did to its driver so far
    live,     \* driver sessions constructed and not yet released
    nCtor,    \* StealthChrome(...) invocations so far, in the whole run
    nMethod,  \* driver method invocations so far (release excluded)
    nStart,   \* example functions started so far
    failed,   \* some call inside an example function has raised
    lastOp,   \* the call executed last
    lastDrv,  \* the last operation on the current function's driver
    banner,   \* lines of the success banner printed so far
    thrown,   \* the exception that left the main block's try
    report    \* what the top-level handler has printed

vars == <<calls, idx, fn, ip, pc, exc, sess, live, nCtor, nMethod, nStart,
          failed, lastOp, lastDrv, banner, thrown, report>>

----------------------------------------------------------------------------
(* One call of a function body: what is called, the kind of call, its      *)
(* source line, and the region of the function it sits in: "plain" (no     *)
(* handler around it), "try" (the body of try ... finally), "finally",     *)
(* "with" (the body of the with statement) or "exit" (leaving the with).   *)
I(op, kind, line, region) ==
    [op |-> op, kind |-> kind, line |-> line, region |-> region]

example_basic_usage_CtorInTry ==
    << I("print", "print", 20, "plain"),
       I("StealthChrome", "ctor", 23, "try"),
       I("get", "method", 27, "try"),
       I("title", "method", 28, "try"),
       I("print", "print", 28, "try"),
       I("current_url", "method", 29, "try"),
       I("print", "print", 29, "try"),
       I("find_element", "method", 32, "try"),
       I("element.text", "other", 33, "try"),
       I("print", "print", 33, "try"),
       I("quit", "quit", 36, "finally") >>

example_basic_usage ==
    << I("print", "print", 20, "plain"),
       I("StealthChrome", "ctor", 23, "plain"),
       I("get", "method", 27, "try"),
       I("title", "method", 28, "try"),
       I("print", "print", 28, "try"),
       I("current_url", "method", 29, "try"),
       I("print", "print", 29, "try"),
       I("find_element", "method", 32, "try"),
       I("element.text", "other", 33, "try"),
       I("print", "print", 33, "try"),
       I("quit", "quit", 36, "finally") >>

example_with_headers_NoQuit ==
    << I("print", "print", 41, "plain"),
       I("StealthChrome", "ctor", 43, "plain"),
       I("get", "method", 46, "plain"),
       I("get_headers", "method", 49, "plain"),
       I("headers.get", "other", 50, "plain"),
       I("print", "print", 50, "plain"),
       I("headers.get", "other", 51, "plain"),
       I("print", "print", 51, "plain") >>

example_with_headers ==
    << I("print", "print", 41, "plain"),
       I("StealthChrome", "ctor", 43, "plain"),
       I("get", "method", 46, "try"),
       I("get_headers", "method", 49, "try"),
       I("headers.get", "other", 50, "try"),
       I("print", "print", 50, "try"),
       I("headers.get", "other", 51, "try"),
       I("print", "print", 51, "try"),
       I("quit", "quit", 54, "finally") >>

example_with_proxy_Uncommented ==
    << I("print", "print", 59, "plain"),
       I("StealthChrome", "ctor", 63, "plain"),
       I("get", "method", 72, "try"),
       I("page_source", "method", 73, "try"),
       I("print", "print", 73, "try"),
       I("quit", "quit", 75, "finally"),
       I("print", "print", 77, "plain") >>

example_with_proxy ==
    << I("print", "print", 59, "plain"),
       I("print", "print", 77, "plain") >>

example_selenium_compatibility_UseAfterQuit ==
    << I("print", "print", 82, "plain"),
       I("StealthChrome", "ctor", 84, "plain"),
       I("get", "method", 87, "try"),
       I("current_url", "method", 90, "try"),
       I("print", "print", 90, "try"),
       I("page_source", "method", 91, "try"),
       I("print", "print", 91, "try"),
       I("find_elements", "method", 94, "try"),
       I("print", "print", 95, "try"),
       I("execute_script", "method", 98, "try"),
       I("print", "print", 99, "try"),
       I("quit", "quit", 106, "try"),
       I("get_cookies", "method", 102, "try"),
       I("print", "print", 103, "try") >>

example_selenium_compatibility ==
    << I("print", "print", 82, "plain"),
       I("StealthChrome", "ctor", 84, "plain"),
       I("get", "method", 87, "try"),
       I("current_url", "method", 90, "try"),
       I("print", "print", 90, "try"),
       I("page_source", "method", 91, "try"),
       I("print", "print", 91, "try"),
       I("find_elements", "method", 94, "try"),
       I("print", "print", 95, "try"),
       I("execute_script", "method", 98, "try"),
       I("print", "print", 99, "try"),
       I("get_cookies", "method", 102, "try"),
       I("print", "print", 103, "try"),
       I("quit", "quit", 106, "finally") >>

example_context_manager_NoWith ==
    << I("print", "print", 111, "plain"),
       I("StealthChrome", "ctor", 114, "plain"),
       I("__enter__", "enter", 114, "plain"),
       I("get", "method", 115, "plain"),
       I("title", "method", 116, "plain"),
       I("print", "print", 116, "plain"),
       I("__exit__", "exit", 114, "plain") >>

example_context_manager ==
    << I("print", "print", 111, "plain"),
       I("StealthChrome", "ctor", 114, "plain"),
       I("__enter__", "enter", 114, "plain"),
       I("get", "method", 115, "with"),
       I("title", "method", 116, "with"),
       I("print", "print", 116, "with"),
       I("__exit__", "exit", 114, "exit") >>

example_custom_options_NoFinally ==
    << I("print", "print", 122, "plain"),
       I("import Options", "import", 124, "plain"),
       I("import time", "import", 125, "plain"),
       I("Options", "other", 128, "plain"),
       I("add_argument", "other", 129, "plain"),
       I("StealthChrome", "ctor", 132, "plain"),
       I("get", "method", 135, "plain"),
       I("get_window_size", "method", 136, "plain"),
       I("size[]", "other", 137, "plain"),
       I("print", "print", 137, "plain"),
       I("sleep", "sleep", 138, "plain"),
       I("quit", "quit", 140, "plain") >>

example_custom_options ==
    << I("print", "print", 122, "plain"),
       I("import Options", "import", 124, "plain"),
       I("import time", "import", 125, "plain"),
       I("Options", "other", 128, "plain"),
       I("add_argument", "other", 129, "plain"),
       I("StealthChrome", "ctor", 132, "plain"),
       I("get", "method", 135, "try"),
       I("get_window_size", "method", 136, "try"),
       I("size[]", "other", 137, "try"),
       I("print", "print", 137, "try"),
       I("sleep", "sleep", 138, "try"),
       I("quit", "quit", 140, "finally") >>

(* The body of each example function, by name.                             *)
Prog(f) ==
    CASE f = "example_basic_usage" -> example_basic_usage
      [] f = "example_with_headers" -> example_with_headers
      [] f = "example_with_proxy" -> example_with_proxy
      [] f = "example_selenium_compatibility" -> example_selenium_compatibility
      [] f = "example_context_manager" -> example_context_manager
      [] f = "example_custom_options" -> example_custom_options
      [] OTHER -> << >>

(* The main block as written: its try calls example_custom_options only.   *)
MainCalls == << "example_custom_options" >>

(* The six calls the main block lists (commented out), in listed order.    *)
ListedCalls ==
    << "example_basic_usage", "example_with_headers", "example_with_proxy",
       "example_selenium_compatibility", "example_context_manager",
       "example_custom_options" >>

(* The main blocks considered: as written, with the listed calls enabled   *)
(* in place of the last one, and with every line of the try enabled.       *)
CallLists == { MainCalls, ListedCalls, ListedCalls \o MainCalls }

(* The source line of the idx-th call of the try: line 152 is the only     *)
(* call of the main block as written, lines 146 to 151 hold the listed     *)
(* calls.                                                                  *)
CallLine(i) == IF calls = MainCalls THEN 152 ELSE 145 + i

(* The examples that construct a driver, and those that release it with a  *)
(* try/finally.                                                            *)
ConstructingExamples ==
    { "example_basic_usage", "example_with_headers",
      "example_selenium_compatibility", "example_context_manager",
      "example_custom_options" }

TryFinallyExamples == ConstructingExamples \ { "example_context_manager" }

(* The classes of exception a call can raise: derived from Exception, or   *)
(* derived from BaseException only (KeyboardInterrupt, SystemExit).        *)
ExcClasses == { "Exception", "BaseException" }

NoExc == [cls |-> "none", op |-> "none", line |-> 0]

Raised(cls, ins) == [cls |-> cls, op |-> ins.op, line |-> ins.line]

(* except Exception as e: the classes the top-level handler catches.       *)
Catches_All(cls) == TRUE

Catches(cls) == cls = "Exception"

NoSess == [acquired |-> 0, entered |-> 0, released |-> 0, by |-> "none",
           methods |-> 0, prints |-> 0, ctorExc |-> NoExc]

NoReport == [msg |-> NoExc, trace |-> NoExc]

----------------------------------------------------------------------------
(* What invoking a call does to the driver session of the function, by the *)
(* interface the script consumes: the constructor acquires a session when  *)
(* it returns, quit() releases it, leaving the with statement releases it  *)
(* (the driver's __exit__ calls quit()), entering it returns the driver.   *)
Invoked(s, ins, outcome) ==
    CASE ins.kind = "ctor" ->
           IF outcome = "returned"
           THEN [s EXCEPT !.acquired = @ + 1]
           ELSE [s EXCEPT !.ctorExc = Raised(outcome, ins)]
      [] ins.kind = "enter" -> [s EXCEPT !.entered = 1]
      [] ins.kind = "quit" -> [s EXCEPT !.released = @ + 1, !.by = "quit"]
      [] ins.kind = "exit" -> [s EXCEPT !.released = @ + 1, !.by = "__exit__"]
      [] ins.kind = "method" -> [s EXCEPT !.methods = @ + 1]
      [] ins.kind = "print" ->
           IF outcome = "returned" THEN [s EXCEPT !.prints = @ + 1] ELSE s
      [] OTHER -> s

LiveAfter(n, ins, outcome) ==
    CASE ins.kind = "ctor" /\ outcome = "returned" -> n + 1
      [] ins.kind \in {"quit", "exit"} /\ n > 0 -> n - 1
      [] OTHER -> n

(* The calls that can raise: all of them but the entry of the with         *)
(* statement, which by the scoped-context interface only hands back the    *)
(* driver the constructor built (the WebDriver __enter__ is return self).  *)
CanRaise(ins) == ins.kind # "enter"

DriverKinds == { "ctor", "enter", "method", "quit", "exit" }

(* The index of the first call of the cleanup (the finally block, or the   *)
(* exit of the with statement) of function body p.                         *)
Cleanup(p) ==
    CHOOSE i \in 1..Len(p) :
        /\ p[i].region \in {"finally", "exit"}
        /\ \A j \in 1..(i - 1) : p[j].region \notin {"finally", "exit"}

HasCleanup(p) == \E i \in 1..Len(p) : p[i].region \in {"finally", "exit"}

(* The bookkeeping shared by both outcomes of a call.                      *)
Account(ins, outcome) ==
    /\ sess' = Invoked(sess, ins, outcome)
    /\ live' = LiveAfter(live, ins, outcome)
    /\ nCtor' = IF ins.kind = "ctor" THEN nCtor + 1 ELSE nCtor
    /\ nMethod' = IF ins.kind = "method" THEN nMethod + 1 ELSE nMethod
    /\ lastOp' = [op |-> ins.op, kind |-> ins.kind, line |-> ins.line,
                  outcome |-> outcome]
    /\ lastDrv' = IF ins.kind \in DriverKinds THEN ins.op ELSE lastDrv

----------------------------------------------------------------------------
Init ==
    /\ calls \in CallLists
    /\ idx = 1
    /\ fn = "none"
    /\ ip = 0
    /\ pc = "main"
    /\ exc = NoExc
    /\ sess = NoSess
    /\ live = 0
    /\ nCtor = 0
    /\ nMethod = 0
    /\ nStart = 0
    /\ failed = FALSE
    /\ lastOp = [op |-> "none", kind |-> "none", line |-> 0, outcome |-> "none"]
    /\ lastDrv = "none"
    /\ banner = 0
    /\ thrown = NoExc
    /\ report = NoReport

(* The try of the main block calls the next example function.              *)
Call ==
    /\ pc = "main"
    /\ idx <= Len(calls)
    /\ fn' = calls[idx]
    /\ ip' = 1
    /\ pc' = "run"
    /\ exc' = NoExc
    /\ sess' = NoSess
    /\ lastDrv' = "none"
    /\ lastOp' = [op |-> calls[idx], kind |-> "call", line |-> CallLine(idx),
                  outcome |-> "entered"]
    /\ nStart' = nStart + 1
    /\ UNCHANGED <<calls, idx, live, nCtor, nMethod, failed, banner, thrown, report>>

(* The next call of the function body returns.  After the last call of the *)
(* body the function is left: by re-raising the exception the cleanup was  *)
(* entered with, if there is one, and by returning otherwise.              *)
OpReturns ==
    /\ pc = "run"
    /\ LET p == Prog(fn)
           ins == p[ip]
       IN /\ Account(ins, "returned")
          /\ IF ip < Len(p)
             THEN /\ ip' = ip + 1
                  /\ pc' = "run"
             ELSE /\ ip' = ip
                  /\ pc' = IF exc = NoExc THEN "returned" ELSE "raised"
    /\ UNCHANGED <<calls, idx, fn, exc, nStart, failed, banner, thrown, report>>

(* The next call of the function body raises.  Inside a try ... finally or *)
(* a with body, control goes to the cleanup with the exception in flight;  *)
(* anywhere else (before the try, in the finally, in __exit__) the         *)
(* exception leaves the function, replacing the one in flight.             *)
OpRaises ==
    /\ pc = "run"
    /\ \E cls \in ExcClasses :
         LET p == Prog(fn)
             ins == p[ip]
         IN /\ CanRaise(ins)
            /\ Account(ins, cls)
            /\ exc' = Raised(cls, ins)
            /\ failed' = TRUE
            /\ IF ins.region \in {"try", "with"} /\ HasCleanup(p)
               THEN /\ ip' = Cleanup(p)
                    /\ pc' = "run"
               ELSE /\ ip' = ip
                    /\ pc' = "raised"
    /\ UNCHANGED <<calls, idx, fn, nStart, banner, thrown, report>>

(* The example function has returned: the try goes on to its next line.    *)
Return ==
    /\ pc = "returned"
    /\ idx' = idx + 1
    /\ pc' = "main"
    /\ UNCHANGED <<calls, fn, ip, exc, sess, live, nCtor, nMethod, nStart,
                   failed, lastOp, lastDrv, banner, thrown, report>>

(* The exception that left the example function is caught by               *)
(* except Exception.                                                       *)
ExceptHandler_Retry ==
    /\ pc = "raised"
    /\ Catches(exc.cls)
    /\ thrown' = exc
    /\ pc' = "main"
    /\ UNCHANGED <<calls, idx, fn, ip, exc, sess, live, nCtor, nMethod, nStart,
                   failed, lastOp, lastDrv, banner, report>>

ExceptHandler ==
    /\ pc = "raised"
    /\ Catches(exc.cls)
    /\ thrown' = exc
    /\ pc' = "handler"
    /\ UNCHANGED <<calls, idx, fn, ip, exc, sess, live, nCtor, nMethod, nStart,
                   failed, lastOp, lastDrv, banner, report>>

(* The exception that left the example function is not an Exception: no    *)
(* handler of the script catches it and the interpreter ends the process.  *)
Uncaught ==
    /\ pc = "raised"
    /\ ~Catches(exc.cls)
    /\ thrown' = exc
    /\ pc' = "uncaught"
    /\ UNCHANGED <<calls, idx, fn, ip, exc, sess, live, nCtor, nMethod, nStart,
                   failed, lastOp, lastDrv, banner, report>>

(* One of the three prints of the success banner, after the last call.     *)
BannerPrint ==
    /\ pc = "main"
    /\ idx > Len(calls)
    /\ banner < 3
    /\ banner' = banner + 1
    /\ lastOp' = [op |-> "print", kind |-> "print", line |-> 154 + banner,
                  outcome |-> "returned"]
    /\ UNCHANGED <<calls, idx, fn, ip, pc, exc, sess, live, nCtor, nMethod,
                   nStart, failed, lastDrv, thrown, report>>

(* A print of the banner raises: it sits in the same try as the calls.     *)
BannerRaises ==
    /\ pc = "main"
    /\ idx > Len(calls)
    /\ banner < 3
    /\ \E cls \in ExcClasses :
         /\ thrown' = [cls |-> cls, op |-> "print", line |-> 154 + banner]
         /\ lastOp' = [op |-> "print", kind |-> "print", line |-> 154 + banner,
                       outcome |-> cls]
         /\ pc' = IF Catches(cls) THEN "handler" ELSE "uncaught"
    /\ UNCHANGED <<calls, idx, fn, ip, exc, sess, live, nCtor, nMethod, nStart,
                   failed, lastDrv, banner, report>>

(* The try has run to its end: the script is over.                         *)
MainEnd ==
    /\ pc = "main"
    /\ idx > Len(calls)
    /\ banner = 3
    /\ pc' = "exit"
    /\ UNCHANGED <<calls, idx, fn, ip, exc, sess, live, nCtor, nMethod, nStart,
                   failed, lastOp, lastDrv, banner, thrown, report>>

(* The handler prints the message of the exception it caught; its print    *)
(* can raise as any print can, and nothing catches that.                   *)
HandlerPrint ==
    /\ pc = "handler"
    /\ \/ /\ report' = [report EXCEPT !.msg = thrown]
          /\ lastOp' = [op |-> "print", kind |-> "print", line |-> 159,
                        outcome |-> "returned"]
          /\ pc' = "traceback"
       \/ \E cls \in ExcClasses :
            /\ lastOp' = [op |-> "print", kind |-> "print", line |-> 159,
                          outcome |-> cls]
            /\ pc' = "uncaught"
            /\ report' = report
    /\ UNCHANGED <<calls, idx, fn, ip, exc, sess, live, nCtor, nMethod, nStart,
                   failed, lastDrv, banner, thrown>>

(* The handler prints the stack trace, the last statement of the script.   *)
HandlerTraceback_FallThrough ==
    /\ pc = "traceback"
    /\ report' = [report EXCEPT !.trace = thrown]
    /\ lastOp' = [op |-> "print_exc", kind |-> "print", line |-> 161,
                  outcome |-> "returned"]
    /\ pc' = "main"
    /\ idx' = Len(calls) + 1
    /\ UNCHANGED <<calls, fn, ip, exc, sess, live, nCtor, nMethod, nStart,
                   failed, lastDrv, banner, thrown>>

HandlerTraceback ==
    /\ pc = "traceback"
    /\ \/ /\ report' = [report EXCEPT !.trace = thrown]
          /\ lastOp' = [op |-> "print_exc", kind |-> "print", line |-> 161,
                        outcome |-> "returned"]
          /\ pc' = "exit"
       \/ \E cls \in ExcClasses :
            /\ lastOp' = [op |-> "print_exc", kind |-> "print", line |-> 161,
                          outcome |-> cls]
            /\ pc' = "uncaught"
            /\ report' = report
    /\ UNCHANGED <<calls, idx, fn, ip, exc, sess, live, nCtor, nMethod, nStart,
                   failed, lastDrv, banner, thrown>>

Next ==
    \/ Call
    \/ OpReturns
    \/ OpRaises
    \/ Return
    \/ ExceptHandler
    \/ Uncaught
    \/ BannerPrint
    \/ BannerRaises
    \/ MainEnd
    \/ HandlerPrint
    \/ HandlerTraceback

Spec == Init /\ [][Next]_vars

----------------------------------------------------------------------------
(* The position of control, for the properties below.                      *)
InFunction == pc = "run"

Terminated == pc \in {"exit", "uncaught"}

ReportPrinted == report # NoReport

----------------------------------------------------------------------------
\* C1: in every example function that constructs a StealthChrome driver, on
\* every way out of the function after the constructor has returned (normal
\* return, or an exception raised by a driver call, a print or the sleep),
\* the session the constructor acquired has been released exactly once:
\* never zero times once the function is left, and never twice.
C1_ReleasedExactlyOnce ==
    /\ sess.released <= 1
    /\ sess.released <= sess.acquired
    /\ (fn \in ConstructingExamples /\ ~InFunction /\ sess.acquired = 1)
          => sess.released = 1

C1_Witness ==
    /\ fn = "example_custom_options"
    /\ pc = "raised"
    /\ exc.op = "sleep"
    /\ sess.acquired = 1
    /\ sess.released = 1

\* C3: in example_context_manager the driver is released by leaving the
\* with block (never by an explicit quit()), not before the block is left,
\* exactly once, and before control leaves the function, both when the body
\* completes and when driver.get, driver.title or print raises inside it.
C3_WithReleases ==
    fn = "example_context_manager" =>
        /\ sess.by # "quit"
        /\ sess.released <= 1
        /\ (InFunction /\ Prog(fn)[ip].region = "with") => sess.released = 0
        /\ (~InFunction /\ sess.entered = 1)
              => (sess.released = 1 /\ sess.by = "__exit__")

C3_Witness ==
    /\ fn = "example_context_manager"
    /\ pc = "raised"
    /\ exc.op = "title"
    /\ sess.released = 1
    /\ sess.by = "__exit__"

\* C4: every driver session goes construct -> driver methods and prints ->
\* release: a driver method is invoked only on a session whose constructor
\* has returned and that has not been released, and once the session is
\* released the release is the last operation performed on the driver.
C4_ConstructUseRelease ==
    /\ lastOp.kind = "method" => (sess.acquired = 1 /\ sess.released = 0)
    /\ sess.methods > 0 => sess.acquired = 1
    /\ sess.released >= 1
          => (sess.acquired = 1 /\ lastDrv \in {"quit", "__exit__"})

C4_Witness ==
    /\ fn = "example_selenium_compatibility"
    /\ pc = "returned"
    /\ sess.methods = 6
    /\ sess.released = 1
    /\ lastDrv = "quit"

\* C5: at every point of a run of the script, the run of all six examples
\* in listed order included, at most one driver session is live, and the
\* constructor is only ever invoked when no session is live (the previous
\* session was released before the next one is constructed).
C5_AtMostOneLive ==
    /\ live <= 1
    /\ (lastOp.kind = "ctor" /\ lastOp.outcome = "returned") => live = 1
    /\ (lastOp.kind = "ctor" /\ lastOp.outcome # "returned") => live = 0

C5_Witness ==
    /\ Len(calls) >= 6
    /\ nCtor = 3
    /\ live = 1
    /\ fn = "example_selenium_compatibility"

\* C6: no retry or recovery: once a call of an example has raised, no
\* driver method other than the release is invoked, no driver is
\* constructed and no example function is started (the failed one
\* included) in any later step.
C6_NoRetry ==
    [][failed => (nMethod' = nMethod /\ nCtor' = nCtor /\ nStart' = nStart)]_vars

C6_Witness ==
    /\ failed
    /\ exc.op = "get"
    /\ sess.released = 1
    /\ pc = "exit"

\* C7: example_with_proxy acquires no session and calls no driver method:
\* all it executes is prints, at most two of them, and when it returns it
\* has printed exactly its two messages.
C7_ProxyTouchesNoDriver ==
    (fn = "example_with_proxy" /\ pc \in {"run", "returned", "raised"}) =>
        /\ sess.acquired = 0
        /\ sess.released = 0
        /\ sess.methods = 0
        /\ sess.ctorExc = NoExc
        /\ lastDrv = "none"
        /\ lastOp.kind \in {"call", "print"}
        /\ sess.prints <= 2
        /\ pc = "returned" => sess.prints = 2

C7_Witness ==
    /\ fn = "example_with_proxy"
    /\ pc = "returned"
    /\ sess.prints = 2
    /\ nCtor = 2

\* C9: when the StealthChrome constructor raises in a try/finally example,
\* no session has been acquired, quit() is not called, no driver method is
\* called, and the constructor's exception is the one that leaves the
\* function and reaches its caller.
C9_CtorRaises ==
    (fn \in TryFinallyExamples /\ sess.ctorExc # NoExc) =>
        /\ sess.acquired = 0
        /\ sess.released = 0
        /\ sess.methods = 0
        /\ ~InFunction
        /\ exc = sess.ctorExc
        /\ pc # "raised" => thrown = sess.ctorExc

C9_Witness ==
    /\ fn = "example_basic_usage"
    /\ sess.ctorExc # NoExc
    /\ pc = "handler"
    /\ thrown.op = "StealthChrome"

\* C2 as stated: every exception that leaves the try of the main block is
\* reported by the top-level handler with its message and its stack trace
\* before the process ends; none ends the process unreported.
C2_Original ==
    (Terminated /\ thrown # NoExc)
        => (report.msg = thrown /\ report.trace = thrown)

\* C2: an exception derived from Exception that leaves the try of the main
\* block is caught by the top-level handler, which prints its message and
\* then its stack trace and ends the script there, unless the handler's
\* own print or print_exc raises; an exception not derived from Exception
\* (KeyboardInterrupt, SystemExit) is not caught and not reported.  After
\* the exception has left the try, no line of the try runs again.
C2_ExceptionReported ==
    /\ (thrown.cls = "Exception" /\ pc = "exit")
          => report = [msg |-> thrown, trace |-> thrown]
    /\ (thrown.cls = "Exception" /\ pc = "uncaught")
          => (lastOp.line \in {159, 161} /\ lastOp.outcome # "returned")
    /\ thrown.cls = "BaseException"
          => (pc = "uncaught" /\ report = NoReport)
    /\ report.msg # NoExc
          => (report.msg = thrown /\ pc \in {"traceback", "exit", "uncaught"})
    /\ report.trace # NoExc
          => (report.trace = thrown /\ report.msg = thrown /\ pc = "exit")
    /\ thrown # NoExc
          => pc \in {"handler", "traceback", "exit", "uncaught"}

C2_Witness ==
    /\ pc = "exit"
    /\ thrown.cls = "Exception"
    /\ thrown.op = "sleep"
    /\ report.msg = thrown
    /\ report.trace = thrown

\* C8 as stated: the banner is printed only if every example call returned
\* without raising and after the last session was released, the error
\* report only if an example raised, and no run prints both.
C8_Original ==
    /\ banner > 0 => (~failed /\ live = 0 /\ idx > Len(calls))
    /\ ReportPrinted => failed
    /\ ~(banner > 0 /\ ReportPrinted)

\* C8: banner lines are printed only if every example call returned without
\* raising and after the last session was released; the error report is
\* printed only if an example raised or a print of the banner itself raised
\* an Exception; a run prints both only in that second case, and then the
\* banner is cut short at the print that raised: no run prints the whole
\* banner and the error report.
C8_BannerOrReport ==
    /\ banner > 0 => (~failed /\ live = 0 /\ idx > Len(calls))
    /\ ReportPrinted
          => (failed \/ (thrown.op = "print" /\ thrown.line = 154 + banner))
    /\ (banner > 0 /\ ReportPrinted)
          => (~failed /\ banner < 3 /\ thrown.op = "print"
                /\ thrown.line = 154 + banner)

C8_Witness ==
    /\ banner = 2
    /\ ~failed
    /\ report.trace = thrown
    /\ thrown.line = 156
    /\ pc = "exit"

====
